---- MODULE Spec2Model ----
(***************************************************************************)
(* Model of RentalIncomeCalculator (src/app.py): value parsing             *)
(* (convert_date, safe_float_conversion), price schedule resolution        *)
(* (get_effective_rent_price), monthly rent over the fixed horizon         *)
(* (calculate_contract_rent) and the batch loop (process_data).            *)
(*                                                                         *)
(* Representation.                                                         *)
(*  - A cell of the input table is a record [k, a, b, c]; k is the kind of *)
(*    raw value and a, b, c its numbers:                                   *)
(*      "na"    NaN / None                "empty" the string ''            *)
(*      "dash"  the string '-'            "slash" the string '/'           *)
(*      "text"  any other text that is neither a number nor a date         *)
(*      "num"   the number a (int)        "yuan"  the text 'a' + yuan sign *)
(*      "cn"    the text a-nian b-yue c-ri (Chinese year/month/day)        *)
(*      "cnym"  the text a-nian b-yue     "cny"   the text a-nian          *)
(*      "iso"   the text a-b-c, a/b/c or a.b.c                             *)
(*      "isoym" the text a-b or a/b                                        *)
(*    In the text of a date the year a is written with four digits         *)
(*    (0804), month and day with one or two.                               *)
(*  - A date string, as convert_date returns it, is the tuple              *)
(*    <<y, m, d, w>>: the year y written with w digits, '-', the month     *)
(*    with two digits, '-', the day with two digits.  w is 4 except where  *)
(*    strftime('%Y') writes a year below 1000 without padding              *)
(*    ('804-10-31' is <<804, 10, 31, 3>>).  None is <<>>.  Strings are     *)
(*    compared character by character (StrLeq).                            *)
(*  - A datetime is the tuple <<y, m, d>>, compared by DateLeq.            *)
(*  - Prices and areas are integers.  A rent amount is fixed-point with    *)
(*    four decimals: the integer v stands for v/10000 (wan yuan).          *)
(*  - Column names are ASCII stand-ins for the Chinese headers:            *)
(*      area  = ji zu mian ji        price = zu jin                        *)
(*      start = he tong qi zu shi jian   end = he tong dao qi shi jian     *)
(*      inc1_time/inc1_price, inc2_time/inc2_price, inc3_time/inc3_price   *)
(*      name  = qi ye ming cheng                                           *)
(***************************************************************************)
EXTENDS Integers, Sequences, FiniteSets, TLC

VARIABLES
    df,             \* the dataset handed to process_data: [columns, dup, rows]
    pc,             \* position of process_data: "idle" (not running), "rows" (in the loop)
    idx,            \* number of rows of df the loop has handled
    results,        \* local list `results` of process_data
    errors,         \* local list `errors` of process_data
    detailed_logs,  \* self.detailed_logs
    now,            \* wall clock (seconds), read by log and time.time
    start_time,     \* local `start_time` of process_data
    ret,            \* value returned by process_data (NoReturn while it runs)
    batch,          \* history: number of process_data invocations so far
    rerun,          \* history: outcome of the previous invocation when it had the same df
    crow,           \* a contract row handed directly to the calculation functions
    calc            \* last direct call of a calculation function and its result

vars == <<df, pc, idx, results, errors, detailed_logs, now, start_time, ret,
          batch, rerun, crow, calc>>


(***************************************************************************)
(* Bounds of the model                                                     *)
(***************************************************************************)
MaxRows == 2
MaxBatches == 3
MaxClock == 1

(***************************************************************************)
(* Calendar                                                                *)
(***************************************************************************)
None == <<>>

Cell(k, a, b, c) == [k |-> k, a |-> a, b |-> b, c |-> c]

month_days == <<31, 28, 31, 30, 31, 30, 31, 31, 30, 31, 30, 31>>

is_leap_year(year) ==
    (year % 4 = 0 /\ year % 100 # 0) \/ (year % 400 = 0)

get_month_days(year, month) ==
    IF month = 2 /\ is_leap_year(year) THEN 29 ELSE month_days[month]

\* datetime(y, m, d) and strptime(s, '%Y-%m-%d') accept exactly the real
\* calendar dates of the years 1..9999
ValidDate(y, m, d) ==
    /\ y \in 1..9999
    /\ m \in 1..12
    /\ d >= 1
    /\ d <= get_month_days(y, m)

\* dt1 <= dt2 on datetimes: calendar order of (year, month, day)
DateLeq(d1, d2) ==
    \/ d1[1] < d2[1]
    \/ d1[1] = d2[1] /\ d1[2] < d2[2]
    \/ d1[1] = d2[1] /\ d1[2] = d2[2] /\ d1[3] <= d2[3]

\* strftime('%Y') writes the year without leading zeros
YearWidth(y) ==
    IF y < 10 THEN 1 ELSE IF y < 100 THEN 2 ELSE IF y < 1000 THEN 3 ELSE 4

\* datetime(y, m, d).strftime('%Y-%m-%d')
Strftime(y, m, d) == <<y, m, d, YearWidth(y)>>

\* the characters of a date string, '-' as 0 and the digit c as c + 1 (the
\* order of the character codes)
DateChars(s) ==
    [i \in 1..s[4] |-> ((s[1] \div (10 ^ (s[4] - i))) % 10) + 1]
      \o <<0, ((s[2] \div 10) % 10) + 1, (s[2] % 10) + 1,
            0, ((s[3] \div 10) % 10) + 1, (s[3] % 10) + 1>>

\* s1 <= s2 on date strings (str.__le__): at the first position where they
\* differ s1 has the smaller character, or s1 is a prefix of s2
StrLeq(s1, s2) ==
    LET c1 == DateChars(s1)
        c2 == DateChars(s2)
        Common == {i \in 1..Len(c1) : i <= Len(c2)}
        Diff == {i \in Common : c1[i] # c2[i]}
    IN  IF Diff = {} THEN Len(c1) <= Len(c2)
        ELSE LET i == CHOOSE j \in Diff : \A k \in Diff : j <= k
             IN  c1[i] < c2[i]

\* (datetime(1899, 12, 30) + timedelta(days = n)).strftime('%Y-%m-%d');
\* None when the sum leaves the range of datetime (OverflowError)
ExcelSerialDate(n) ==
    LET z    == n - 25569 + 719468
        era  == z \div 146097
        doe  == z - era * 146097
        yoe  == (doe - (doe \div 1460) + (doe \div 36524) - (doe \div 146096)) \div 365
        doy  == doe - (365 * yoe + (yoe \div 4) - (yoe \div 100))
        mp   == (5 * doy + 2) \div 153
        d    == doy - ((153 * mp + 2) \div 5) + 1
        m    == IF mp < 10 THEN mp + 3 ELSE mp - 9
        y    == yoe + era * 400 + (IF m <= 2 THEN 1 ELSE 0)
    IN  IF y \in 1..9999 THEN Strftime(y, m, d) ELSE None

(***************************************************************************)
(* ValueParser                                                             *)
(***************************************************************************)
convert_date(date_val) ==
    CASE date_val.k \in {"na", "empty", "dash", "slash"} -> None
      [] date_val.k = "num"   -> ExcelSerialDate(date_val.a)
      [] date_val.k = "cn"    -> <<date_val.a, date_val.b, date_val.c, 4>>
      [] date_val.k = "cnym"  -> <<date_val.a, date_val.b, 1, 4>>
      [] date_val.k = "cny"   -> <<date_val.a, 1, 1, 4>>
      [] date_val.k = "iso"   ->
            IF ValidDate(date_val.a, date_val.b, date_val.c)
            THEN Strftime(date_val.a, date_val.b, date_val.c) ELSE None
      [] date_val.k = "isoym" ->
            IF ValidDate(date_val.a, date_val.b, 1)
            THEN Strftime(date_val.a, date_val.b, 1) ELSE None
      [] OTHER -> None

safe_float_conversion(value) ==
    CASE value.k \in {"na", "empty", "dash", "slash"} -> 0
      [] value.k \in {"num", "yuan"} -> value.a
      [] OTHER -> 0

\* row.get(field, default): the cell of the row, the default when the
\* dataset has no such column
RowGet(row, field, default) ==
    IF field \in DOMAIN row THEN row[field] ELSE default

EmptyCell == Cell("empty", 0, 0, 0)
ZeroCell == Cell("num", 0, 0, 0)

(***************************************************************************)
(* PriceScheduleResolver                                                   *)
(***************************************************************************)
\* the (time, price) pairs appended to `increases`, in declaration order
IncreaseOfSlot(row, timeField, priceField) ==
    LET t == convert_date(RowGet(row, timeField, EmptyCell))
        p == safe_float_conversion(RowGet(row, priceField, ZeroCell))
    IN  IF t # None /\ p > 0 THEN << <<t, p>> >> ELSE <<>>

CollectIncreases(row) ==
    IncreaseOfSlot(row, "inc1_time", "inc1_price")
      \o IncreaseOfSlot(row, "inc2_time", "inc2_price")
      \o IncreaseOfSlot(row, "inc3_time", "inc3_price")

\* increases.sort(key = lambda x: x[0]): stable, ascending by the date string
RECURSIVE InsertByTime(_, _)
InsertByTime(e, s) ==
    IF s = <<>> THEN <<e>>
    ELSE IF StrLeq(s[1][1], e[1]) THEN <<s[1]>> \o InsertByTime(e, Tail(s))
    ELSE <<e>> \o s

RECURSIVE SortIncreases(_)
SortIncreases(incs) ==
    IF incs = <<>> THEN <<>>
    ELSE InsertByTime(incs[Len(incs)], SortIncreases(SubSeq(incs, 1, Len(incs) - 1)))

\* the loop of lines 165-168
RECURSIVE FoldIncreases(_, _, _)
FoldIncreases(current_price, incs, target_date) ==
    IF incs = <<>> THEN current_price
    ELSE FoldIncreases(
            IF StrLeq(incs[1][1], target_date) THEN incs[1][2] ELSE current_price,
            Tail(incs), target_date)

\* no cell kind of this model raises inside the try block, so the handler of
\* lines 172-174 (log and return 0) is never entered
get_effective_rent_price(row, target_date) ==
    LET base_price == safe_float_conversion(RowGet(row, "price", ZeroCell))
    IN  IF base_price = 0 THEN 0
        ELSE FoldIncreases(base_price, SortIncreases(CollectIncreases(row)), target_date)

(***************************************************************************)
(* MonthlyProrationEngine                                                  *)
(***************************************************************************)
calculate_monthly_rent(rent_price, area, year, month) ==
    (rent_price * area * 10000) \div 10000

\* the keys 'YYYY-MM' written by the two loops
Months2025 == {<<2025, m>> : m \in 1..10}
Months2026 == {<<2026, m>> : m \in 1..12}
HorizonMonths == Months2025 \cup Months2026

\* target_date = f"{year}-{month:02d}-01" (lines 196, 217)
TargetDate(year, month) == <<year, month, 1, 4>>

MonthActive_whole(start_dt, end_dt, year, month) ==
    /\ DateLeq(start_dt, <<year, month, 1>>)
    /\ DateLeq(<<year, month, 1>>, end_dt)

\* the test of lines 194 and 215
MonthActive(start_dt, end_dt, year, month) ==
    /\ DateLeq(start_dt, <<year, month, get_month_days(year, month)>>)
    /\ DateLeq(<<year, month, 1>>, end_dt)

\* the value stored in monthly_rents for one month of either loop
MonthEntry(row, start_dt, end_dt, area, year, month) ==
    IF MonthActive(start_dt, end_dt, year, month)
    THEN calculate_monthly_rent(
            get_effective_rent_price(row, TargetDate(year, month)), area, year, month)
    ELSE 0

RECURSIVE Total2025_both(_, _, _, _, _)
Total2025_both(row, start_dt, end_dt, area, month) ==
    IF month = 0 THEN 0
    ELSE Total2025_both(row, start_dt, end_dt, area, month - 1)
           + (IF MonthActive(start_dt, end_dt, 2025, month)
              THEN calculate_monthly_rent(
                      get_effective_rent_price(row, TargetDate(2025, month)), area, 2025, month)
              ELSE 0)
           + (IF MonthActive(start_dt, end_dt, 2026, month)
              THEN calculate_monthly_rent(
                      get_effective_rent_price(row, TargetDate(2026, month)), area, 2026, month)
              ELSE 0)

\* total_2025 after the first loop has run months 1..month
RECURSIVE Total2025(_, _, _, _, _)
Total2025(row, start_dt, end_dt, area, month) ==
    IF month = 0 THEN 0
    ELSE Total2025(row, start_dt, end_dt, area, month - 1)
           + MonthEntry(row, start_dt, end_dt, area, 2025, month)

\* strptime(s, "%Y-%m-%d") raises for None, for a year not written with
\* four digits and for a string that is not a calendar date
Strptime_fails(s) == s = None \/ s[4] # 4 \/ ~ValidDate(s[1], s[2], s[3])

\* the datetime strptime(s, "%Y-%m-%d") returns
Strptime(s) == <<s[1], s[2], s[3]>>

calculate_contract_rent(row, start_date, end_date, area) ==
    IF Strptime_fails(start_date) \/ Strptime_fails(end_date)
    THEN [total |-> 0, monthly |-> <<>>, failed |-> TRUE]
    ELSE LET start_dt == Strptime(start_date)
             end_dt == Strptime(end_date)
         IN  [total   |-> Total2025(row, start_dt, end_dt, area, 10),
              monthly |-> [k \in HorizonMonths |->
                              MonthEntry(row, start_dt, end_dt, area, k[1], k[2])],
              failed  |-> FALSE]

(***************************************************************************)
(* The tabular input                                                        *)
(***************************************************************************)
AllColumns == {"area", "price", "start", "end", "inc1_time", "inc1_price",
               "inc2_time", "inc2_price", "inc3_time", "inc3_price", "name"}

Num(n) == Cell("num", n, 0, 0)
Iso(y, m, d) == Cell("iso", y, m, d)
Cn(y, m, d) == Cell("cn", y, m, d)
TextCell == Cell("text", 0, 0, 0)

MkRow(area, price, start, end, t1, p1, t2, p2, t3, p3) ==
    [area |-> area, price |-> price, start |-> start, end |-> end,
     inc1_time |-> t1, inc1_price |-> p1, inc2_time |-> t2, inc2_price |-> p2,
     inc3_time |-> t3, inc3_price |-> p3, name |-> TextCell]

\* the row as a Series indexed by the columns of its dataset
Project(row, columns) == [f \in columns |-> row[f]]

\* rows of the batch runs: a good contract (with an increase and a unit
\* suffix), an empty area, an unparsable start date, a zero area, a zero
\* base price, and a Chinese-notation start date that is no calendar date
BatchRows ==
    { MkRow(Num(100), Cell("yuan", 50, 0, 0), Iso(2025, 3, 15), Iso(2026, 12, 31),
            Iso(2025, 6, 1), Num(60), EmptyCell, ZeroCell, EmptyCell, ZeroCell),
      MkRow(EmptyCell, Num(50), Iso(2025, 1, 1), Iso(2026, 12, 31),
            EmptyCell, ZeroCell, EmptyCell, ZeroCell, EmptyCell, ZeroCell),
      MkRow(Num(100), Num(50), TextCell, Iso(2026, 12, 31),
            EmptyCell, ZeroCell, EmptyCell, ZeroCell, EmptyCell, ZeroCell),
      MkRow(Cell("slash", 0, 0, 0), Num(50), Iso(2025, 1, 1), Iso(2026, 12, 31),
            EmptyCell, ZeroCell, EmptyCell, ZeroCell, EmptyCell, ZeroCell),
      MkRow(Num(100), Num(0), Iso(2025, 1, 1), Iso(2026, 12, 31),
            EmptyCell, ZeroCell, EmptyCell, ZeroCell, EmptyCell, ZeroCell),
      MkRow(Num(100), Num(50), Cn(2025, 2, 30), Cell("num", 46387, 0, 0),
            EmptyCell, ZeroCell, EmptyCell, ZeroCell, EmptyCell, ZeroCell) }

\* column layouts: every column; no third increase and no name; no base
\* price column; the area column present twice (dup)
Layouts ==
    { [columns |-> AllColumns, dup |-> {}],
      [columns |-> AllColumns \ {"inc3_time", "inc3_price", "name"}, dup |-> {}],
      [columns |-> AllColumns \ {"price"}, dup |-> {}],
      [columns |-> AllColumns, dup |-> {"area"}] }

RECURSIVE RowSeqs(_)
RowSeqs(n) ==
    IF n = 0 THEN {<<>>}
    ELSE LET shorter == RowSeqs(n - 1)
         IN  shorter \cup {Append(s, r) : s \in {x \in shorter : Len(x) = n - 1},
                                           r \in BatchRows}

MkDataset(layout, rows) ==
    [columns |-> layout.columns, dup |-> layout.dup,
     rows |-> [i \in 1..Len(rows) |-> Project(rows[i], layout.columns)]]

Datasets == {MkDataset(l, rows) : l \in Layouts, rows \in RowSeqs(MaxRows)}

NoDataset == [columns |-> {}, dup |-> {}, rows |-> <<>>]

(***************************************************************************)
(* BatchProcessor: process_data                                            *)
(***************************************************************************)
\* self.log(message, level): one line '[timestamp] [level] message'.  msg is
\* the message template, row, n and m the numbers formatted into it, batch
\* (history) the invocation of process_data that wrote the line
LogLine(t, level, msg, row, n, m, b) ==
    [ts |-> t, level |-> level, msg |-> msg, row |-> row, n |-> n, m |-> m,
     batch |-> b]

\* an entry of `errors`: the message template, the 1-based row number it
\* names (0 for the schema error), the fields and raw values it quotes, and
\* (history) the invocation that appended it
ErrorEntry(msg, row, fields, cells, b) ==
    [msg |-> msg, row |-> row, fields |-> fields, cells |-> cells, batch |-> b]

required_fields_short == <<"area", "start", "end">>

required_fields == <<"area", "price", "start", "end">>

\* self.detailed_logs = [] (line 234)
ResetLogs_kept(old_logs) == old_logs

ResetLogs(old_logs) == <<>>

\* errors = [] (line 236); the argument is the list of the previous invocation
NewErrors_kept(old_errors) == old_errors

NewErrors(old_errors) == <<>>

\* results = [] (line 235)
NewResults(old_results) == <<>>

\* idx + 1, the row number quoted in messages (idx is the 0-based index label)
RowNumber_zero(i) == i

RowNumber(i) == i + 1

\* pd.isna(value) or str(value).strip() in ['', '-'] (line 264)
CellMissing(value) == value.k \in {"na", "empty", "dash"}

EmptyTable == [months |-> {}, rows |-> <<>>]

\* the body of the for loop (lines 255-315) for the row with index label i:
\* the entries it appends to errors and to results and the lines it logs
RowOutcome(row, dup, i, nrows, t, b) ==
    LET r == RowNumber(i)
        progress == IF (i + 1) % 50 = 0
                    THEN <<LogLine(t, "INFO", "progress", i + 1, nrows, 0, b)>>
                    ELSE <<>>
        missing_values == SelectSeq(required_fields,
                                    LAMBDA f : CellMissing(RowGet(row, f, Cell("na", 0, 0, 0))))
        start_date == convert_date(row["start"])
        end_date == convert_date(row["end"])
        area == safe_float_conversion(row["area"])
        rent == calculate_contract_rent(row, start_date, end_date, area)
        calc_log == IF rent.failed
                    THEN <<LogLine(t, "ERROR", "calc_error", 0, 0, 0, b)>>
                    ELSE <<>>
        Skip(msg, level, fields, cells, before) ==
            [errs |-> <<ErrorEntry(msg, r, fields, cells, b)>>,
             ress |-> <<>>,
             logs |-> progress \o before \o <<LogLine(t, level, msg, r, 0, 0, b)>>]
    IN  IF \E j \in 1..Len(required_fields) : required_fields[j] \in dup
        THEN \* bool() of a Series raises ValueError, caught at line 312
             Skip("row_error", "ERROR", <<>>, <<>>, <<>>)
        ELSE IF missing_values # <<>>
        THEN Skip("row_empty", "WARNING", missing_values, <<>>, <<>>)
        ELSE IF "start" \notin DOMAIN row \/ "end" \notin DOMAIN row
        THEN \* row[...] of an absent column raises KeyError, caught at line 312
             Skip("row_error", "ERROR", <<>>, <<>>, <<>>)
        ELSE IF start_date = None \/ end_date = None
        THEN Skip("row_date", "WARNING", <<"start", "end">>,
                  <<row["start"], row["end"]>>, <<>>)
        ELSE IF "area" \notin DOMAIN row
        THEN Skip("row_error", "ERROR", <<>>, <<>>, <<>>)
        ELSE IF area <= 0
        THEN Skip("row_area", "WARNING", <<"area">>, <<row["area"]>>, <<>>)
        ELSE IF "price" \notin DOMAIN row
        THEN \* KeyError at line 300, after calculate_contract_rent has run
             Skip("row_error", "ERROR", <<>>, <<>>, calc_log)
        ELSE [errs |-> <<>>,
              ress |-> << [name    |-> RowGet(row, "name", Cell("text", 1, 0, 0)),
                           start   |-> start_date,
                           end     |-> end_date,
                           area    |-> area,
                           price   |-> safe_float_conversion(row["price"]),
                           total   |-> rent.total,
                           monthly |-> rent.monthly,
                           batch   |-> b] >>,
              logs |-> progress \o calc_log
                         \o <<LogLine(t, "INFO", "row_ok", r, 0, 0, b)>>]

\* f"{float(x):.6f}" of a rent amount (x stands for x/10000): the text of the
\* number with six decimals, held as the count of millionths; "nan" is <<>>
FormatAmount(x) == <<x * 100>>
FormatPrice(x) == <<x * 1000000>>
NanText == <<>>

\* pd.DataFrame(results) followed by the formatting of lines 322-325: the
\* month columns are the union of the keys of the dicts, a dict without a
\* key leaves NaN in that column
ResultTable(res) ==
    LET months == UNION {DOMAIN res[i].monthly : i \in 1..Len(res)}
    IN  [months |-> months,
         rows |-> [i \in 1..Len(res) |->
                     [name  |-> res[i].name,
                      start |-> res[i].start,
                      end   |-> res[i].end,
                      area  |-> res[i].area,
                      price |-> FormatPrice(res[i].price),
                      total |-> FormatAmount(res[i].total),
                      cells |-> [k \in months |->
                                   IF k \in DOMAIN res[i].monthly
                                   THEN FormatAmount(res[i].monthly[k])
                                   ELSE NanText]]]]

\* the error strings returned to the caller (without the history field)
ErrorStrings(errs) ==
    [i \in 1..Len(errs) |->
        [msg |-> errs[i].msg, row |-> errs[i].row, fields |-> errs[i].fields,
         cells |-> errs[i].cells]]

\* a log without its time-derived parts (timestamps, elapsed seconds) and
\* without the history field
LogContent(logs) ==
    [i \in 1..Len(logs) |->
        [level |-> logs[i].level, msg |-> logs[i].msg, row |-> logs[i].row,
         n |-> IF logs[i].msg = "elapsed" THEN 0 ELSE logs[i].n, m |-> logs[i].m]]

NoReturn == [table |-> EmptyTable, errors |-> <<>>]
NoRerun == [is |-> FALSE, ret |-> NoReturn, logs |-> <<>>]
NoCalc == [op |-> "none", target |-> None, price |-> 0, start_date |-> None,
           end_date |-> None, area |-> 0, total |-> 0, monthly |-> <<>>,
           failed |-> FALSE]

\* lines 232-251: reset, first log lines, schema check
BeginBatch(d) ==
    /\ pc = "idle"
    /\ batch < MaxBatches
    /\ LET b == batch + 1
           missing_fields == SelectSeq(required_fields, LAMBDA f : f \notin d.columns)
           logs == ResetLogs(detailed_logs)
                     \o <<LogLine(now, "INFO", "start", 0, 0, 0, b),
                          LogLine(now, "INFO", "count", 0, Len(d.rows), 0, b)>>
       IN  /\ df' = d
           /\ batch' = b
           /\ rerun' = IF batch > 0 /\ d = df
                       THEN [is |-> TRUE, ret |-> ret, logs |-> LogContent(detailed_logs)]
                       ELSE NoRerun
           /\ results' = NewResults(results)
           /\ start_time' = now
           /\ idx' = 0
           /\ IF missing_fields # <<>>
              THEN /\ errors' = Append(NewErrors(errors),
                                       ErrorEntry("missing_fields", 0, missing_fields, <<>>, b))
                   /\ detailed_logs' = Append(logs,
                                        LogLine(now, "ERROR", "missing_fields", 0, 0, 0, b))
                   /\ ret' = [table |-> EmptyTable, errors |-> ErrorStrings(errors')]
                   /\ pc' = "idle"
              ELSE /\ errors' = NewErrors(errors)
                   /\ detailed_logs' = logs
                   /\ ret' = NoReturn
                   /\ pc' = "rows"
    /\ UNCHANGED <<now, crow, calc>>

\* lines 254-315: one iteration of the loop over df.iterrows()
ProcessRow ==
    /\ pc = "rows"
    /\ idx < Len(df.rows)
    /\ LET out == RowOutcome(df.rows[idx + 1], df.dup, idx, Len(df.rows), now, batch)
       IN  /\ errors' = errors \o out.errs
           /\ results' = results \o out.ress
           /\ detailed_logs' = detailed_logs \o out.logs
    /\ idx' = idx + 1
    /\ UNCHANGED <<df, pc, now, start_time, ret, batch, rerun, crow, calc>>

\* lines 317-335: build and format the result table, log, return; dt is the
\* time the invocation took
FinishBatch(dt) ==
    /\ pc = "rows"
    /\ idx = Len(df.rows)
    /\ now + dt <= MaxClock
    /\ now' = now + dt
    /\ IF results # <<>>
       THEN /\ ret' = [table |-> ResultTable(results), errors |-> ErrorStrings(errors)]
            /\ detailed_logs' = detailed_logs
                 \o <<LogLine(now', "INFO", "done", 0, Len(df.rows), Len(results), batch),
                      LogLine(now', "INFO", "elapsed", 0, now' - start_time, 0, batch)>>
       ELSE /\ ret' = [table |-> EmptyTable, errors |-> ErrorStrings(errors)]
            /\ detailed_logs' = Append(detailed_logs,
                                  LogLine(now', "WARNING", "no_results", 0, 0, 0, batch))
    /\ pc' = "idle"
    /\ UNCHANGED <<df, idx, results, errors, start_time, batch, rerun, crow, calc>>

\* time passes between two invocations
Tick ==
    /\ pc = "idle"
    /\ now < MaxClock
    /\ now' = now + 1
    /\ UNCHANGED <<df, pc, idx, results, errors, detailed_logs, start_time, ret,
                   batch, rerun, crow, calc>>

DefaultRow == MkRow(Num(100), Num(50), Iso(2025, 1, 1), Iso(2026, 12, 31),
                    EmptyCell, ZeroCell, EmptyCell, ZeroCell, EmptyCell, ZeroCell)

Init ==
    /\ df = NoDataset
    /\ pc = "idle"
    /\ idx = 0
    /\ results = <<>>
    /\ errors = <<>>
    /\ detailed_logs = <<>>
    /\ now = 0
    /\ start_time = 0
    /\ ret = NoReturn
    /\ batch = 0
    /\ rerun = NoRerun
    /\ crow = DefaultRow
    /\ calc = NoCalc

Next ==
    \/ \E d \in Datasets : BeginBatch(d)
    \/ ProcessRow
    \/ \E dt \in 0..MaxClock : FinishBatch(dt)
    \/ Tick

Spec == Init /\ [][Next]_vars

(***************************************************************************)
(* Direct calls of the calculation functions                               *)
(***************************************************************************)
\* the (time, price) cells of one increase slot: no increase, five dated
\* increases (ISO text, Chinese text in mid-month, Excel serial 46082 =
\* 2026-03-01, Excel serial -400000 = 31 October 804), and a dated increase
\* whose price is 0
SlotOptions(p) ==
    { <<EmptyCell, ZeroCell>>,
      <<Iso(2025, 1, 1), Num(p)>>,
      <<Iso(2025, 6, 1), Num(p)>>,
      <<Cn(2025, 6, 15), Num(p)>>,
      <<Num(46082), Num(p)>>,
      <<Num(0 - 400000), Num(p)>>,
      <<Iso(2025, 1, 1), ZeroCell>> }

CalcStarts == {Iso(2024, 6, 1), Iso(2025, 3, 15), Cn(2025, 3, 20), Iso(2026, 2, 10),
               Iso(2027, 1, 1), Cn(2025, 2, 30), Num(0 - 400000)}
CalcEnds == {Iso(2024, 12, 31), Iso(2025, 3, 10), Iso(2025, 10, 31),
             Iso(2026, 12, 31), Iso(2027, 6, 30)}
CalcPrices == {Num(0), Num(50), Num(100)}

CalcRows ==
    { MkRow(Num(100), price, start, end, s1[1], s1[2], s2[1], s2[2], s3[1], s3[2]) :
        price \in CalcPrices, start \in CalcStarts, end \in CalcEnds,
        s1 \in SlotOptions(120), s2 \in SlotOptions(110), s3 \in SlotOptions(130) }

CalcTargets == {<<2024, 1, 1, 4>>, <<2025, 3, 1, 4>>, <<2025, 6, 1, 4>>,
                <<2025, 6, 14, 4>>, <<2025, 7, 1, 4>>, <<2026, 3, 1, 4>>}

\* get_effective_rent_price(crow, target_date)
CallGetEffectiveRentPrice(target_date) ==
    /\ calc.op = "none"
    /\ calc' = [NoCalc EXCEPT !.op = "price", !.target = target_date,
                              !.price = get_effective_rent_price(crow, target_date)]
    /\ UNCHANGED <<df, pc, idx, results, errors, detailed_logs, now, start_time,
                   ret, batch, rerun, crow>>

\* calculate_contract_rent(crow, start_date, end_date, area) with the
\* arguments process_data derives from the row (lines 274, 275, 284)
CallCalculateContractRent ==
    /\ calc.op = "none"
    /\ LET start_date == convert_date(crow["start"])
           end_date == convert_date(crow["end"])
           area == safe_float_conversion(crow["area"])
           rent == calculate_contract_rent(crow, start_date, end_date, area)
       IN  /\ calc' = [NoCalc EXCEPT !.op = "rent", !.start_date = start_date,
                                     !.end_date = end_date, !.area = area,
                                     !.total = rent.total, !.monthly = rent.monthly,
                                     !.failed = rent.failed]
           /\ detailed_logs' =
                 IF rent.failed
                 THEN Append(detailed_logs, LogLine(now, "ERROR", "calc_error", 0, 0, 0, batch))
                 ELSE detailed_logs
    /\ UNCHANGED <<df, pc, idx, results, errors, now, start_time, ret, batch,
                   rerun, crow>>

InitCalc ==
    /\ df = NoDataset
    /\ pc = "idle"
    /\ idx = 0
    /\ results = <<>>
    /\ errors = <<>>
    /\ detailed_logs = <<>>
    /\ now = 0
    /\ start_time = 0
    /\ ret = NoReturn
    /\ batch = 0
    /\ rerun = NoRerun
    /\ crow \in CalcRows
    /\ calc = NoCalc

NextCalc ==
    \/ \E t \in CalcTargets : CallGetEffectiveRentPrice(t)
    \/ CallCalculateContractRent

SpecCalc == InitCalc /\ [][NextCalc]_vars

(***************************************************************************)
(* Properties of the price schedule (specification SpecCalc)               *)
(***************************************************************************)
SlotFields == << <<"inc1_time", "inc1_price">>, <<"inc2_time", "inc2_price">>,
                 <<"inc3_time", "inc3_price">> >>

SlotTime(row, i) == convert_date(RowGet(row, SlotFields[i][1], EmptyCell))
SlotPrice(row, i) == safe_float_conversion(RowGet(row, SlotFields[i][2], ZeroCell))

\* the slots that declare an increase event: price > 0 and a parseable date
EventSlots(row) == {i \in 1..3 : SlotTime(row, i) # None /\ SlotPrice(row, i) > 0}

\* the same calendar day
SameDay(d1, d2) == DateLeq(d1, d2) /\ DateLeq(d2, d1)

\* the events in force on the target date, by the calendar
InForce(row, target) == {i \in EventSlots(row) : DateLeq(SlotTime(row, i), target)}

\* the event in force with the latest date, the later-declared one among
\* equal dates
Latest(row, target) ==
    CHOOSE i \in InForce(row, target) :
        \A j \in InForce(row, target) :
            \/ j = i
            \/ ~DateLeq(SlotTime(row, i), SlotTime(row, j))
            \/ SameDay(SlotTime(row, j), SlotTime(row, i)) /\ j < i

ExpectedPrice(row, target) ==
    LET base == safe_float_conversion(RowGet(row, "price", ZeroCell))
    IN  IF base = 0 THEN 0
        ELSE IF InForce(row, target) = {} THEN base
        ELSE SlotPrice(row, Latest(row, target))

\* the row with its three increase slots declared in the order perm
PermuteSlots(row, perm) ==
    [f \in DOMAIN row |->
        IF \E i \in 1..3 : f = SlotFields[i][1]
        THEN row[SlotFields[perm[CHOOSE i \in 1..3 : f = SlotFields[i][1]]][1]]
        ELSE IF \E i \in 1..3 : f = SlotFields[i][2]
        THEN row[SlotFields[perm[CHOOSE i \in 1..3 : f = SlotFields[i][2]]][2]]
        ELSE row[f]]

SlotPerms == {p \in [1..3 -> 1..3] : \A i, j \in 1..3 : p[i] = p[j] => i = j}

SameDateEvents(row) ==
    \E i, j \in EventSlots(row) : i # j /\ SameDay(SlotTime(row, i), SlotTime(row, j))

\* C1: get_effective_rent_price returns 0 when the base price is 0, otherwise
\* the price of the latest-dated increase event (price > 0, parseable date)
\* whose date is <= the target date, the later-declared one among equal dates,
\* and the base price when there is none; declaring the slots in another
\* order changes nothing unless two events carry the same date.
C1_EffectivePrice ==
    calc.op = "price" =>
        /\ calc.price = ExpectedPrice(crow, calc.target)
        /\ ~SameDateEvents(crow) =>
              \A p \in SlotPerms :
                  get_effective_rent_price(PermuteSlots(crow, p), calc.target) = calc.price

(***************************************************************************)
(* Properties of the monthly rent (specification SpecCalc)                 *)
(***************************************************************************)
RECURSIVE SumOver(_, _)
SumOver(f, S) ==
    IF S = {} THEN 0
    ELSE LET k == CHOOSE x \in S : TRUE
         IN  f[k] + SumOver(f, S \ {k})

LastDay(k) == <<k[1], k[2], get_month_days(k[1], k[2])>>
FirstDay(k) == <<k[1], k[2], 1>>

ValidNormalized(d) == d # None /\ d[4] = 4 /\ ValidDate(d[1], d[2], d[3])

\* C2: with valid start and end date strings, each of the 22 horizon months
\* holds get_effective_rent_price(first day of the month) x area / 10000
\* when the contract overlaps the month at all, and 0 otherwise; nothing
\* fails; a contract outside the horizon has 22 zero entries and subtotal 0;
\* a month whose first day precedes every increase has the base price.
C2_MonthlyEntries ==
    (calc.op = "rent" /\ ValidNormalized(calc.start_date) /\ ValidNormalized(calc.end_date)) =>
        /\ ~calc.failed
        /\ DOMAIN calc.monthly = HorizonMonths
        /\ Cardinality(DOMAIN calc.monthly) = 22
        /\ \A k \in HorizonMonths :
              calc.monthly[k] =
                 IF DateLeq(calc.start_date, LastDay(k)) /\ DateLeq(FirstDay(k), calc.end_date)
                 THEN get_effective_rent_price(crow, <<k[1], k[2], 1, 4>>) * calc.area
                 ELSE 0
        /\ \A k \in HorizonMonths :
              (/\ DateLeq(calc.start_date, LastDay(k)) /\ DateLeq(FirstDay(k), calc.end_date)
               /\ \A i \in EventSlots(crow) : ~DateLeq(SlotTime(crow, i), FirstDay(k))) =>
                  calc.monthly[k] = safe_float_conversion(crow["price"]) * calc.area
        /\ (DateLeq(calc.end_date, <<2024, 12, 31>>) \/ DateLeq(<<2027, 1, 1>>, calc.start_date)) =>
              /\ \A k \in HorizonMonths : calc.monthly[k] = 0
              /\ calc.total = 0

\* a contract starting on the 15th of March 2025 with an increase dated the
\* 15th of June 2025: March counts as a whole month, June still has the
\* base price, July has the increased price
C2_Witness ==
    /\ calc.op = "rent"
    /\ calc.start_date = <<2025, 3, 15, 4>>
    /\ calc.end_date = <<2026, 12, 31, 4>>
    /\ crow["price"] = Num(100)
    /\ crow["inc1_time"] = Cn(2025, 6, 15) /\ crow["inc1_price"] = Num(120)
    /\ crow["inc2_time"] = EmptyCell /\ crow["inc3_time"] = EmptyCell
    /\ calc.monthly[<<2025, 2>>] = 0
    /\ calc.monthly[<<2025, 3>>] = 100 * 100
    /\ calc.monthly[<<2025, 6>>] = 100 * 100
    /\ calc.monthly[<<2025, 7>>] = 120 * 100

\* C3: the subtotal returned by calculate_contract_rent is the sum of the ten
\* entries 2025-01..2025-10 of the same result and contains no 2026 month.
C3_Subtotal ==
    (calc.op = "rent" /\ ~calc.failed) =>
        /\ Months2025 \subseteq DOMAIN calc.monthly
        /\ calc.total = SumOver(calc.monthly, Months2025)

\* area 100, base price 50, no increases, active over the whole horizon:
\* every entry 0.5 (5000/10000), subtotal 5.0
C3_Witness ==
    /\ calc.op = "rent"
    /\ ~calc.failed
    /\ crow["price"] = Num(50)
    /\ EventSlots(crow) = {}
    /\ \A k \in HorizonMonths : calc.monthly[k] = 5000
    /\ calc.total = 50000

\* C7: a contract whose end date is before its start date has no active
\* month: all 22 entries are 0 and the subtotal is 0.
C7_InvertedInactive ==
    (/\ calc.op = "rent"
     /\ ValidNormalized(calc.start_date) /\ ValidNormalized(calc.end_date)
     /\ ~DateLeq(calc.start_date, calc.end_date)) =>
        /\ DOMAIN calc.monthly = HorizonMonths
        /\ \A k \in HorizonMonths : calc.monthly[k] = 0
        /\ calc.total = 0

(***************************************************************************)
(* Properties of the batch processor (specification Spec)                  *)
(***************************************************************************)
RequiredColumns == {"area", "price", "start", "end"}

SchemaOk(d) == RequiredColumns \subseteq d.columns

\* the row numbers the error list names
ErrorRows == {errors[i].row : i \in 1..Len(errors)}

\* the rows handled so far that no error names, in input order
OkRows == SelectSeq([i \in 1..idx |-> i], LAMBDA i : i \notin ErrorRows)

\* the reasons for which a row is skipped
RowDefect(d, i) ==
    \/ d.dup \cap RequiredColumns # {}
    \/ \E f \in RequiredColumns : d.rows[i][f].k \in {"na", "empty", "dash"}
    \/ convert_date(d.rows[i]["start"]) = None
    \/ convert_date(d.rows[i]["end"]) = None
    \/ safe_float_conversion(d.rows[i]["area"]) <= 0

\* C4: when one of the four required columns is absent, process_data returns
\* an empty result table and exactly one, schema-level, error, and examines
\* no row, whatever the rows contain.
C4_SchemaAbort ==
    (batch > 0 /\ ~SchemaOk(df)) =>
        /\ pc = "idle"
        /\ ret.table = EmptyTable
        /\ Len(ret.errors) = 1
        /\ ret.errors[1].msg = "missing_fields"
        /\ ret.errors[1].row = 0
        /\ results = <<>>
        /\ idx = 0
        /\ \A i \in 1..Len(detailed_logs) : detailed_logs[i].row = 0

\* a dataset of two rows without the base price column
C4_Witness ==
    /\ batch > 0
    /\ pc = "idle"
    /\ "price" \notin df.columns
    /\ Len(df.rows) = 2
    /\ Len(ret.errors) = 1
    /\ ret.errors[1].fields = <<"price">>

\* C5: when the schema check passes, the rows are handled once each, in input
\* order, and each yields exactly one outcome: a ContractResult, or an error
\* naming its 1-based row number; results + errors = rows handled, both in
\* row order, and a skipped row does not stop the rows after it.
C5_OneOutcomePerRow ==
    (batch > 0 /\ SchemaOk(df)) =>
        /\ idx <= Len(df.rows)
        /\ Len(results) + Len(errors) = idx
        /\ \A i \in 1..Len(errors) :
              /\ errors[i].row \in 1..idx
              /\ i > 1 => errors[i - 1].row < errors[i].row
              /\ RowDefect(df, errors[i].row)
        /\ Len(OkRows) = Len(results)
        /\ \A k \in 1..Len(results) :
              /\ ~RowDefect(df, OkRows[k])
              /\ results[k].start = convert_date(df.rows[OkRows[k]]["start"])
              /\ results[k].end = convert_date(df.rows[OkRows[k]]["end"])
              /\ results[k].area = safe_float_conversion(df.rows[OkRows[k]]["area"])
              /\ results[k].price = safe_float_conversion(df.rows[OkRows[k]]["price"])
        /\ pc = "idle" =>
              /\ idx = Len(df.rows)
              /\ Len(ret.table.rows) = Len(results)
              /\ ret.errors = ErrorStrings(errors)

\* two rows, the first with an empty area: one error naming row 1, and the
\* second row still yields its result
C5_Witness ==
    /\ batch > 0
    /\ pc = "idle"
    /\ SchemaOk(df)
    /\ Len(df.rows) = 2
    /\ df.rows[1]["area"] = EmptyCell
    /\ Len(ret.errors) = 1
    /\ ret.errors[1].row = 1
    /\ ret.errors[1].msg = "row_empty"
    /\ Len(ret.table.rows) = 1

\* C6: every ContractResult appended to the results has a monthly rent entry
\* for each of the 22 horizon months.
C6_FullMonthlyMap ==
    \A i \in 1..Len(results) : DOMAIN results[i].monthly = HorizonMonths

\* C9: a row whose area is 0 or whose base price is 0 contributes no row to
\* the results.
C9_ZeroSkipped ==
    \A i \in 1..Len(results) : results[i].area # 0 /\ results[i].price # 0

\* C8: process_data run twice in a row on the same dataset returns the same
\* result table and the same error list, and writes the same log apart from
\* the time-derived parts of its lines.
C8_Idempotent ==
    (pc = "idle" /\ rerun.is) =>
        /\ ret.table = rerun.ret.table
        /\ ret.errors = rerun.ret.errors
        /\ LogContent(detailed_logs) = rerun.logs

\* a second run on a dataset that yields both a result and an error
C8_Witness ==
    /\ pc = "idle"
    /\ rerun.is
    /\ batch >= 2
    /\ Len(ret.table.rows) >= 1
    /\ Len(ret.errors) >= 1

\* C10: after any sequence of invocations the log buffer holds only lines of
\* the most recent invocation, starting with its first line, and the results
\* and errors it returns were all produced by that invocation from its own
\* dataset.
C10_NoCarryOver ==
    batch > 0 =>
        /\ Len(detailed_logs) >= 2
        /\ detailed_logs[1].msg = "start"
        /\ detailed_logs[2].msg = "count" /\ detailed_logs[2].n = Len(df.rows)
        /\ \A i \in 1..Len(detailed_logs) : detailed_logs[i].batch = batch
        /\ \A i \in 1..Len(results) : results[i].batch = batch
        /\ \A i \in 1..Len(errors) :
              /\ errors[i].batch = batch
              /\ errors[i].row \in 0..Len(df.rows)
        /\ pc = "idle" =>
              /\ ret.errors = ErrorStrings(errors)
              /\ Len(ret.table.rows) = Len(results)
              /\ Len(results) + Len(errors) = (IF SchemaOk(df) THEN Len(df.rows) ELSE 1)

\* a finished invocation that follows an invocation on another dataset
C10_Witness ==
    /\ batch >= 2
    /\ pc = "idle"
    /\ ~rerun.is
    /\ Len(results) >= 1
    /\ Len(errors) >= 1

====
